---- MODULE Spec2Model ----
(***************************************************************************)
(* Model of the family-planning data cleaning pipeline                     *)
(* (FamilyPlanningDataTransformationPipeline and its HTTP route).          *)
(*                                                                         *)
(* A DataFrame is a sequence of rows (records); a Float64 is a record      *)
(* [m, e] standing for the number m * 2^e, m a natural number written as   *)
(* a sequence of bits, least significant first.                            *)
(***************************************************************************)
EXTENDS Integers, Sequences, FiniteSets, TLC

(***************************************************************************)
(* Natural numbers of any width: sequences of bits, least significant bit  *)
(* first, with no zero as the most significant bit (zero is <<>>).         *)
(***************************************************************************)
RECURSIVE BitsOf(_)
BitsOf(n) == IF n = 0 THEN <<>> ELSE <<n % 2>> \o BitsOf(n \div 2)

RECURSIVE StripHigh(_)
StripHigh(a) ==
    IF a = <<>> THEN <<>>
    ELSE IF a[Len(a)] = 0 THEN StripHigh(SubSeq(a, 1, Len(a) - 1)) ELSE a

RECURSIVE BigAddC(_, _, _)
BigAddC(a, b, c) ==
    IF a = <<>> /\ b = <<>> THEN (IF c = 1 THEN <<1>> ELSE <<>>)
    ELSE LET x == IF a = <<>> THEN 0 ELSE a[1]
             y == IF b = <<>> THEN 0 ELSE b[1]
             s == x + y + c
         IN  <<s % 2>> \o BigAddC(IF a = <<>> THEN <<>> ELSE Tail(a),
                                  IF b = <<>> THEN <<>> ELSE Tail(b),
                                  s \div 2)

BigAdd(a, b) == BigAddC(a, b, 0)

\* a - b for a >= b, bit by bit with a borrow
RECURSIVE BigSubB(_, _, _)
BigSubB(a, b, br) ==
    IF a = <<>> THEN <<>>
    ELSE LET y == IF b = <<>> THEN 0 ELSE b[1]
             d == a[1] - y - br
         IN  <<d % 2>> \o BigSubB(Tail(a),
                                  IF b = <<>> THEN <<>> ELSE Tail(b),
                                  IF d < 0 THEN 1 ELSE 0)

BigSub(a, b) == StripHigh(BigSubB(a, b, 0))

ShiftLeft(a, k) == IF a = <<>> THEN <<>> ELSE [i \in 1..k |-> 0] \o a

RECURSIVE BigMul(_, _)
BigMul(a, b) ==
    IF b = <<>> THEN <<>>
    ELSE BigAdd(IF b[1] = 1 THEN a ELSE <<>>, ShiftLeft(BigMul(a, Tail(b)), 1))

\* a <= b
RECURSIVE BigLeq(_, _)
BigLeq(a, b) ==
    IF Len(a) # Len(b) THEN Len(a) < Len(b)
    ELSE IF a = <<>> THEN TRUE
    ELSE IF a[Len(a)] # b[Len(b)] THEN a[Len(a)] < b[Len(b)]
    ELSE BigLeq(StripHigh(SubSeq(a, 1, Len(a) - 1)),
                StripHigh(SubSeq(b, 1, Len(b) - 1)))

(***************************************************************************)
(* Float64 (polars pl.Float64, Python float): a non-negative binary        *)
(* floating point number m * 2^e with at most Float64Precision significant *)
(* bits, kept with m odd (or m = 0, e = 0) so that equal numbers are equal *)
(* records.  Every operation computes the exact result and rounds it to    *)
(* nearest, ties to even, as IEEE 754 does.  The exponent range is not     *)
(* modelled: the pipeline's values are far from overflow and underflow.    *)
(***************************************************************************)
Float64Precision == 53

RECURSIVE Normalize(_, _)
Normalize(m, e) ==
    IF m = <<>> THEN [m |-> <<>>, e |-> 0]
    ELSE IF m[1] = 0 THEN Normalize(Tail(m), e + 1)
    ELSE [m |-> m, e |-> e]

\* the exact number m * 2^e rounded to Float64Precision significant bits
RoundF64(m, e) ==
    IF Len(m) <= Float64Precision THEN Normalize(m, e)
    ELSE LET d      == Len(m) - Float64Precision
             q      == SubSeq(m, d + 1, Len(m))
             guard  == m[d]
             sticky == \E i \in 1..(d - 1) : m[i] = 1
             up     == guard = 1 /\ (sticky \/ q[1] = 1)
         IN  Normalize(IF up THEN BigAdd(q, <<1>>) ELSE q, e + d)

ToFloat64(n) == RoundF64(BitsOf(n), 0)

\* the two mantissas written with the smaller of the two exponents
AlignedM(x, y) == ShiftLeft(x.m, x.e - (IF x.e < y.e THEN x.e ELSE y.e))

MinE(x, y) == IF x.e < y.e THEN x.e ELSE y.e

F64Add(x, y) == RoundF64(BigAdd(AlignedM(x, y), AlignedM(y, x)), MinE(x, y))

\* x - y for x >= y
F64Sub(x, y) == RoundF64(BigSub(AlignedM(x, y), AlignedM(y, x)), MinE(x, y))

F64Mul(x, y) ==
    IF Len(x.m) <= Len(y.m) THEN RoundF64(BigMul(y.m, x.m), x.e + y.e)
    ELSE RoundF64(BigMul(x.m, y.m), x.e + y.e)

F64Leq(x, y) == BigLeq(AlignedM(x, y), AlignedM(y, x))

\* |x - y|, exact when the difference is a Float64
F64Dist(x, y) == IF F64Leq(y, x) THEN F64Sub(x, y) ELSE F64Sub(y, x)

\* a Float64 from its hexadecimal mantissa digits (most significant first)
\* and the exponent of its last bit, as float.hex() prints it
RECURSIVE HexBits(_)
HexBits(h) ==
    IF h = <<>> THEN <<>>
    ELSE LET d == h[Len(h)]
         IN  <<d % 2, (d \div 2) % 2, (d \div 4) % 2, (d \div 8) % 2>>
             \o HexBits(SubSeq(h, 1, Len(h) - 1))

FromHex(h, e) == Normalize(StripHigh(HexBits(h)), e)

(***************************************************************************)
(* Strings.  TLC compares strings for equality only, so the order polars   *)
(* sorts strings by (byte order) is given by the position in StringOrder,  *)
(* which lists every string a sorted column of the model can hold.         *)
(***************************************************************************)
StringOrder ==
    << "2 Rod", "2024-01", "2024-02", "COCs", "Consumption", "Cycle Beads",
       "DMPA-IM", "DMPA-SC", "EC Pills", "F1", "F2", "Female Condoms",
       "Hormonal IUCD",
       "Implanon", "Jadelle", "Kenya", "Levoplant", "Male Condoms", "Mombasa",
       "Nairobi", "Non-Hormonal IUCD", "POPs", "Service", "Unknown Method",
       "Unknown Product" >>

Rank(s) == CHOOSE i \in 1..Len(StringOrder) : StringOrder[i] = s

\* lexicographic order of two tuples of strings of the same length
RECURSIVE TupleLess(_, _)
TupleLess(a, b) ==
    IF a = <<>> THEN FALSE
    ELSE IF a[1] # b[1] THEN Rank(a[1]) < Rank(b[1])
    ELSE TupleLess(Tail(a), Tail(b))

\* pl.Expr.str.contains(pat) for a literal pattern: s and pat are sequences
\* of characters
StrContains(s, pat) ==
    \E i \in 1..(Len(s) - Len(pat) + 1) : SubSeq(s, i, i + Len(pat) - 1) = pat

\* pl.Expr.str.to_titlecase on the names the unpivot produces
ToTitlecase(s) ==
    CASE s = "Jadelle"   -> "Jadelle"
      [] s = "Levoplant" -> "Levoplant"
      [] s = "2 Rod"     -> "2 Rod"

(***************************************************************************)
(* Reference catalogs                                                      *)
(***************************************************************************)
ANALYTIC_ID_MAP ==
    [ dl4JcBnxu0X |-> "POPs",              uHM6lzLXDBd |-> "POPs",
      tfPZ6sGgh4q |-> "Non-Hormonal IUCD", hRktPfPEegP |-> "Non-Hormonal IUCD",
      cV4qoKSYiBs |-> "Male Condoms",      AVDzuypqGt9 |-> "Male Condoms",
      APbXNRovb5w |-> "Levoplant",
      CJdFYcZ1zOq |-> "Implanon",          XgJfT71Unkn |-> "Implanon",
      MsS41X1GEFr |-> "Jadelle",
      zXbxl6y97mi |-> "Hormonal IUCD",     Wv02gixbRpT |-> "Hormonal IUCD",
      Fxb4iVJdw2g |-> "Female Condoms",    AR7RhdC90IV |-> "Female Condoms",
      paDQStynGGD |-> "EC Pills",          qaBPR9wbWku |-> "EC Pills",
      NMCIxSeGpS3 |-> "DMPA-SC",           hXa1xyUMfTa |-> "DMPA-SC",
      PgQIx7Hq1kp |-> "DMPA-IM",           J6qnTev1LXw |-> "DMPA-IM",
      fYCo4peO0yE |-> "Cycle Beads",       bGGT0F7iRxt |-> "Cycle Beads",
      BQmcVE8fex4 |-> "COCs",              hH9gmEmEhH4 |-> "COCs",
      TUHzoPGLM3t |-> "2 Rod" ]

\* 1.25, 0.5, 10.0, 10.0
SERVICE_ADJUSTMENTS ==
    [ COCs |-> FromHex(<<1, 4>>, -4), POPs |-> FromHex(<<1>>, -1) ] @@
    ("Female Condoms" :> FromHex(<<1, 4>>, -1)) @@
    ("Male Condoms" :> FromHex(<<1, 4>>, -1))

\* pl.Expr.replace_strict(mapping, default=...)
ReplaceStrict(x, mapping, default) ==
    IF x \in DOMAIN mapping THEN mapping[x] ELSE default

F64One == FromHex(<<1>>, 0)

(***************************************************************************)
(* DataFrame operations                                                    *)
(***************************************************************************)
RECURSIVE Concat(_)
Concat(dfs) == IF dfs = <<>> THEN <<>> ELSE dfs[1] \o Concat(Tail(dfs))

\* the rows of df in the order of first appearance, without repetition
RECURSIVE Distinct(_)
Distinct(df) ==
    IF df = <<>> THEN <<>>
    ELSE LET rest == Distinct(SubSeq(df, 1, Len(df) - 1))
             last == df[Len(df)]
         IN  IF \E i \in 1..Len(rest) : rest[i] = last THEN rest
             ELSE Append(rest, last)

\* pl.Series.sum of a Float64 column, in row order
RECURSIVE SumValues(_)
SumValues(df) ==
    IF df = <<>> THEN ToFloat64(0)
    ELSE F64Add(SumValues(SubSeq(df, 1, Len(df) - 1)), df[Len(df)].value)

\* DataFrame.is_duplicated(): row i is identical to some other row
IsDuplicated(df) ==
    [i \in 1..Len(df) |-> \E j \in 1..Len(df) : j # i /\ df[j] = df[i]]

(***************************************************************************)
(* The Transformer: _apply_transformations                                 *)
(***************************************************************************)
\* mutant of JoinOrgUnits: a left join, the missing county filled with the
\* facility
RECURSIVE JoinOrgUnitsLeft(_, _)
JoinOrgUnitsLeft(raw_fp, org_units) ==
    IF raw_fp = <<>> THEN <<>>
    ELSE LET l    == raw_fp[1]
             hits == SelectSeq(org_units, LAMBDA r : r.org_unit = l.org_unit)
             rows == IF hits = <<>> THEN <<[org_unit |-> l.org_unit,
                                            county_name |-> l.org_unit]>>
                     ELSE hits
         IN  [i \in 1..Len(rows) |->
                 [analytic_id |-> l.analytic_id, org_unit |-> l.org_unit,
                  period |-> l.period, value |-> l.value,
                  county_name |-> rows[i].county_name]]
             \o JoinOrgUnitsLeft(Tail(raw_fp), org_units)

\* raw_fp.join(org_units, on="org_unit", how="inner"): one row for every
\* pair of a raw row and a mapping row with the same org_unit
RECURSIVE JoinOrgUnits(_, _)
JoinOrgUnits(raw_fp, org_units) ==
    IF raw_fp = <<>> THEN <<>>
    ELSE LET l    == raw_fp[1]
             hits == SelectSeq(org_units, LAMBDA r : r.org_unit = l.org_unit)
         IN  [i \in 1..Len(hits) |->
                 [analytic_id |-> l.analytic_id, org_unit |-> l.org_unit,
                  period |-> l.period, value |-> l.value,
                  county_name |-> hits[i].county_name]]
             \o JoinOrgUnits(Tail(raw_fp), org_units)

\* .join(elements, on="analytic_id", how="inner").drop("org_unit")
RECURSIVE JoinElements(_, _)
JoinElements(df, elements) ==
    IF df = <<>> THEN <<>>
    ELSE LET l    == df[1]
             hits == SelectSeq(elements, LAMBDA r : r.analytic_id = l.analytic_id)
         IN  [i \in 1..Len(hits) |->
                 [analytic_id |-> l.analytic_id, period |-> l.period,
                  value |-> l.value, county_name |-> l.county_name,
                  analytic_name |-> hits[i].analytic_name]]
             \o JoinElements(Tail(df), elements)

\* analytic_short_name
ShortName(analytic_id) ==
    ReplaceStrict(analytic_id, ANALYTIC_ID_MAP, "Unknown Product")

\* mutant of Method: the two tests in the other order
MethodConsumptionFirst(analytic_name) ==
    IF StrContains(analytic_name, <<"7", "4", "7">>) THEN "Consumption"
    ELSE IF StrContains(analytic_name, <<"7", "1", "1">>) THEN "Service"
    ELSE "Unknown Method"

\* the 'method' column
Method(analytic_name) ==
    IF StrContains(analytic_name, <<"7", "1", "1">>) THEN "Service"
    ELSE IF StrContains(analytic_name, <<"7", "4", "7">>) THEN "Consumption"
    ELSE "Unknown Method"

\* mutant of AdjustedValue: the multiplier is applied whatever the method
AdjustedValueAnyMethod(method, analytic_short_name, value) ==
    F64Mul(ToFloat64(value),
           ReplaceStrict(analytic_short_name, SERVICE_ADJUSTMENTS, F64One))

\* the adjusted 'value' column (Float64: the supertype of both branches)
AdjustedValue(method, analytic_short_name, value) ==
    IF method = "Service"
    THEN F64Mul(ToFloat64(value),
                ReplaceStrict(analytic_short_name, SERVICE_ADJUSTMENTS, F64One))
    ELSE ToFloat64(value)

\* processed_df, with the columns renamed as the aggregation renames them
ProcessedRow(r) ==
    [analytic |-> ShortName(r.analytic_id),
     method   |-> Method(r.analytic_name),
     org_unit |-> r.county_name,
     period   |-> r.period,
     value    |-> AdjustedValue(Method(r.analytic_name),
                                ShortName(r.analytic_id), r.value)]

\* the group_by key of the county level aggregation
CountyKey(r) == <<r.analytic, r.method, r.org_unit, r.period>>

\* mutant of CountyGroups: the rows are not aggregated
CountyGroupsNotAggregated(df) == df

\* .group_by(["analytic", "method", "org_unit", "period"]).agg(value.sum())
CountyGroups(df) ==
    LET keys == Distinct([i \in 1..Len(df) |-> CountyKey(df[i])])
    IN  [i \in 1..Len(keys) |->
            [analytic |-> keys[i][1], method |-> keys[i][2],
             org_unit |-> keys[i][3], period |-> keys[i][4],
             value |-> SumValues(SelectSeq(df, LAMBDA r : CountyKey(r) = keys[i]))]]

\* .sort(["analytic", "method", "org_unit", "period"])
SortCounty(df) ==
    SortSeq(df, LAMBDA a, b : TupleLess(CountyKey(a), CountyKey(b)))

ApplyTransformations(raw_fp, org_units, elements) ==
    LET joined_df    == JoinElements(JoinOrgUnits(raw_fp, org_units), elements)
        processed_df == [i \in 1..Len(joined_df) |-> ProcessedRow(joined_df[i])]
    IN  SortCounty(CountyGroups(processed_df))

(***************************************************************************)
(* The National Aggregator: _generate_national_aggregates                  *)
(***************************************************************************)
NATIONAL_LABEL == "Kenya"

\* the group_by key of the national aggregation
NationalKey(r) == <<r.analytic, r.method, r.period>>

\* mutant of GenerateNationalAggregates: grouped by product and period only
GenerateNationalAggregatesAnyMethod(county_df) ==
    LET keyOf(r) == <<r.analytic, r.period>>
        keys     == Distinct([i \in 1..Len(county_df) |-> keyOf(county_df[i])])
    IN  [i \in 1..Len(keys) |->
            LET rows == SelectSeq(county_df, LAMBDA r : keyOf(r) = keys[i])
            IN  [analytic |-> keys[i][1], method |-> rows[1].method,
                 org_unit |-> NATIONAL_LABEL, period |-> keys[i][2],
                 value |-> SumValues(rows)]]

\* the national rows, in the order in which their keys first appear
GenerateNationalAggregates(county_df) ==
    LET keys == Distinct([i \in 1..Len(county_df) |-> NationalKey(county_df[i])])
    IN  [i \in 1..Len(keys) |->
            [analytic |-> keys[i][1], method |-> keys[i][2],
             org_unit |-> NATIONAL_LABEL, period |-> keys[i][3],
             value |-> SumValues(SelectSeq(county_df,
                                           LAMBDA r : NationalKey(r) = keys[i]))]]

\* group_by keeps no order: every order of the rows is a possible result
RowOrders(df) ==
    {[i \in 1..Len(df) |-> df[p[i]]] : p \in Permutations(1..Len(df))}

(***************************************************************************)
(* The Redistribution Rule: _process_two_rod_split                         *)
(***************************************************************************)
DEFAULT_JADELLE_RATIO == FromHex(<<1, 9, 9, 9, 9, 9, 9, 9, 9, 9, 9, 9, 9, 10>>, -53)

\* mutant of TargetRow: the method is not looked at
TargetRowAnyMethod(r) == r.analytic = "2 Rod"

\* target_rows
TargetRow(r) == r.method = "Service" /\ r.analytic = "2 Rod"

NotTargetRow(r) == ~TargetRow(r)

\* the index of the pivot
PivotIndex(r) == <<r.org_unit, r.method, r.period>>

\* .sort(["org_unit", "analytic", "period"])
SortTwoRod(df) ==
    SortSeq(df, LAMBDA a, b : TupleLess(<<a.org_unit, a.analytic, a.period>>,
                                        <<b.org_unit, b.analytic, b.period>>))

\* mutant of PivotRaises: the pivot takes the first value of a group
PivotTakesFirst(df) == FALSE

\* pivot without an aggregate function raises when a group holds more than
\* one value
PivotRaises(df) ==
    \E i, j \in 1..Len(df) : i # j /\ PivotIndex(df[i]) = PivotIndex(df[j])

\* the derived rows: unpivot lists the Jadelle column, then the Levoplant one
DerivedRows(sorted, name, factor) ==
    [i \in 1..Len(sorted) |->
        [analytic |-> ToTitlecase(name), method |-> sorted[i].method,
         org_unit |-> sorted[i].org_unit, period |-> sorted[i].period,
         value |-> F64Mul(sorted[i].value, factor)]]

\* mutant of SplitRows: both shares are computed with the ratio itself
SplitRowsSameRatio(two_rod_df, jadelle_ratio) ==
    LET sorted == SortTwoRod(two_rod_df)
    IN  DerivedRows(sorted, "Jadelle", jadelle_ratio)
        \o DerivedRows(sorted, "Levoplant", jadelle_ratio)

SplitRows(two_rod_df, jadelle_ratio) ==
    LET sorted == SortTwoRod(two_rod_df)
    IN  DerivedRows(sorted, "Jadelle", jadelle_ratio)
        \o DerivedRows(sorted, "Levoplant", F64Sub(F64One, jadelle_ratio))

PIVOT_ERROR ==
    "found multiple elements in the same group, please specify an aggregation function"

\* the result of a call: the DataFrame returned, or the exception raised
Returned(df) == [ok |-> TRUE, df |-> df, error |-> ""]

Raised(msg) == [ok |-> FALSE, df |-> <<>>, error |-> msg]

\* mutant of ProcessTwoRodSplit: the split rows are added to the whole input
ProcessTwoRodSplitKeepsCombined(df, jadelle_ratio) ==
    LET two_rod_df == SelectSeq(df, TargetRow)
    IN  IF two_rod_df = <<>> THEN Returned(df)
        ELSE IF PivotRaises(two_rod_df) THEN Raised(PIVOT_ERROR)
        ELSE Returned(Concat(<<df, SplitRows(two_rod_df, jadelle_ratio)>>))

ProcessTwoRodSplit(df, jadelle_ratio) ==
    LET two_rod_df == SelectSeq(df, TargetRow)
    IN  IF two_rod_df = <<>> THEN Returned(df)
        ELSE IF PivotRaises(two_rod_df) THEN Raised(PIVOT_ERROR)
        ELSE Returned(Concat(<<SelectSeq(df, NotTargetRow),
                               SplitRows(two_rod_df, jadelle_ratio)>>))

(***************************************************************************)
(* The store and the response envelope                                     *)
(***************************************************************************)
None == <<>>

Some(x) == <<x>>

\* save_df_to_db(df, db_url, table_name, if_table_exists): "replace" drops
\* and recreates the destination, "append" adds the rows to it
SaveDfToDb(tables, df, name, if_table_exists) ==
    IF if_table_exists = "replace" THEN [tables EXCEPT ![name] = df]
    ELSE [tables EXCEPT ![name] = @ \o df]

APIResponse(success, message, payload, trace_id) ==
    [success |-> success, message |-> message, data |-> payload,
     trace_id |-> trace_id]

DEFAULT_TABLE_NAME == "cleaned_fp_summary_data"

\* mutant of IF_TABLE_EXISTS: the mode of the incremental ingestion
IfTableExistsAppend == "append"

\* the mode run() hands to the persistence delegate
IF_TABLE_EXISTS == "replace"

\* DataFrame.shape of a DataFrame of the aggregate's five columns
Shape(df) == <<Len(df), 5>>

SuccessResponse(df, trace_id) ==
    APIResponse(TRUE,
                <<"Pipeline finished successfully. Final Data Shape: ", Shape(df)>>,
                Some("Processed data saved to configured database"),
                trace_id)

FailureResponse(e, trace_id) ==
    APIResponse(FALSE,
                <<"Pipeline failed. Error: ", e, ". Check logs for more info.">>,
                None,
                trace_id)

\* mutant of ExceptException: the exception is logged and raised again
ExceptExceptionReraises(e, trace_id) ==
    [response |-> None, escaped |-> Some(e)]

\* except Exception as e: the exception is caught and answered, not re-raised
ExceptException(e, trace_id) ==
    [response |-> Some(FailureResponse(e, trace_id)), escaped |-> None]

(***************************************************************************)
(* The steps of run(), in the order of the code                            *)
(***************************************************************************)
StepOrder ==
    <<"EXTRACT", "AUDIT", "TRANSFORM", "AGGREGATE_NATIONAL", "MERGE",
      "REDISTRIBUTE", "PERSIST">>

\* the statement run() executes after a step that did not raise
AfterStep(step) ==
    CASE step = "EXTRACT"            -> "AUDIT"
      [] step = "AUDIT"              -> "TRANSFORM"
      [] step = "TRANSFORM"          -> "AGGREGATE_NATIONAL"
      [] step = "AGGREGATE_NATIONAL" -> "MERGE"
      [] step = "MERGE"              -> "REDISTRIBUTE"
      [] step = "REDISTRIBUTE"       -> "PERSIST"
      [] step = "PERSIST"            -> "finally"

\* an exception a step can raise for a reason outside the data (the store is
\* unreachable, a column has another type, memory runs out); its message
StepErrors ==
    [EXTRACT            |-> "connection to server failed",
     AUDIT              |-> "unable to find column org_unit",
     TRANSFORM          |-> "cannot multiply column value",
     AGGREGATE_NATIONAL |-> "out of memory",
     MERGE              |-> "unable to vstack, dtypes do not match",
     REDISTRIBUTE       |-> "unable to find column method",
     PERSIST            |-> "table is locked"]

(***************************************************************************)
(* _audit_duplicates: what it logs                                         *)
(***************************************************************************)
AUDIT_HEAD == 5

AuditDuplicates(df) ==
    LET is_dup    == IsDuplicated(df)
        dup_count == Cardinality({i \in 1..Len(df) : is_dup[i]})
        dups      == [i \in 1..Len(df) |-> <<df[i].org_unit, df[i].period>>]
        affected  == Distinct(SelectSeq(dups,
                        LAMBDA k : \E i \in 1..Len(df) : is_dup[i] /\ dups[i] = k))
        summary   == SortSeq(affected, LAMBDA a, b : TupleLess(a, b))
    IN  IF dup_count = 0 THEN [dup_count |-> 0, summary |-> <<>>]
        ELSE [dup_count |-> dup_count,
              summary |-> SubSeq(summary, 1,
                                 IF Len(summary) < AUDIT_HEAD THEN Len(summary)
                                 ELSE AUDIT_HEAD)]

(***************************************************************************)
(* Bounds and the inputs drawn within them                                 *)
(***************************************************************************)
\* rows of raw_fp_data in a run of the pipeline
MaxRaw == 2

\* rows of raw_fp_data handed to the Transformer called on its own
MaxObs == 2

\* rows of the DataFrame handed to the Redistribution Rule called on its own
MaxSplitRows == 2

SeqsUpTo(S, n) == UNION {[1..k -> S] : k \in 0..n}

N711 == <<"M", "7", "1", "1">>

N747 == <<"7", "4", "7", "x">>

NBoth == <<"7", "4", "7", "1", "1">>

NNeither == <<"7", "1", "7", "4">>

OrgRow(f, c) == [org_unit |-> f, county_name |-> c]

ElementRow(a, n) == [analytic_id |-> a, analytic_name |-> n]

\* the source tables a run of the pipeline can find in the store
RunRawRows ==
    [analytic_id : {"TUHzoPGLM3t", "MsS41X1GEFr"}, org_unit : {"F1", "F2"},
     period : {"2024-01"}, value : {3}]

RunOrgTables ==
    { <<OrgRow("F1", "Nairobi"), OrgRow("F2", "Mombasa")>>,
      <<OrgRow("F1", "Nairobi"), OrgRow("F2", "Nairobi")>>,
      <<OrgRow("F1", "Kenya"), OrgRow("F2", "Nairobi")>> }

RunElementTables ==
    { <<ElementRow("TUHzoPGLM3t", N711), ElementRow("MsS41X1GEFr", N711)>>,
      <<ElementRow("TUHzoPGLM3t", N711), ElementRow("MsS41X1GEFr", N747)>> }

RunStores ==
    [raw_fp_data : SeqsUpTo(RunRawRows, MaxRaw),
     organisation_units : RunOrgTables,
     data_elements : RunElementTables]

TraceIds == {"trace-1", "trace-2"}

TableNames == {DEFAULT_TABLE_NAME, "fp_summary_copy"}

\* what an earlier run left in a destination table
StaleRow ==
    [analytic |-> "Implanon", method |-> "Service", org_unit |-> "Mombasa",
     period |-> "2024-01", value |-> ToFloat64(7)]

StaleTables == {<<>>, <<StaleRow>>}

(***************************************************************************)
(* State                                                                   *)
(***************************************************************************)
VARIABLES
    pc,                \* the statement the run (or the call) is at
    request_trace_id,  \* self.request_trace_id
    table_name,        \* run()'s table_name
    db,                \* the source tables of the store
    sink,              \* the destination tables of the store
    data,              \* run()'s locals: None or Some(value)
    county_df,
    national_df,
    merged_df,
    final_df,
    jadelle_ratio,     \* the ratio _process_two_rod_split is called with
    audit_log,         \* what _audit_duplicates logged
    error,             \* the exception a step or a call raised
    response,          \* what run() returned
    escaped,           \* the exception that left run()
    http_response,     \* what the route answered
    save_calls,        \* history: the calls of the persistence delegate
    steps,             \* history: the steps executed, with their outcome
    cleanups,          \* history: how often the finally block ran
    caller             \* who called run(): the route, or other code

vars ==
    <<pc, request_trace_id, table_name, db, sink, data, county_df, national_df,
      merged_df, final_df, jadelle_ratio, audit_log, error, response, escaped,
      http_response, save_calls, steps, cleanups, caller>>

locals == <<data, county_df, national_df, merged_df, final_df>>

Init ==
    /\ pc = "idle"
    /\ request_trace_id = ""
    /\ table_name = ""
    /\ db \in RunStores
    /\ sink \in {[t \in TableNames |-> stale] : stale \in StaleTables}
    /\ data = None /\ county_df = None /\ national_df = None
    /\ merged_df = None /\ final_df = None
    /\ jadelle_ratio = DEFAULT_JADELLE_RATIO
    /\ audit_log = None
    /\ error = None
    /\ response = None
    /\ escaped = None
    /\ http_response = None
    /\ save_calls = <<>>
    /\ steps = <<>>
    /\ cleanups = 0
    /\ caller = ""

(***************************************************************************)
(* The route and run()                                                     *)
(***************************************************************************)
\* a step ends without raising
Completed(step) ==
    /\ steps' = Append(steps, [step |-> step, outcome |-> "ok"])
    /\ pc' = AfterStep(step)
    /\ UNCHANGED <<error, response, escaped>>

\* mutant of Failed: the exception is logged and the run goes on
FailedThenContinues(step, e) ==
    /\ steps' = Append(steps, [step |-> step, outcome |-> "raised"])
    /\ error' = Some(e)
    /\ pc' = AfterStep(step)
    /\ UNCHANGED <<response, escaped>>

\* mutant of Failed: the except clause returns and no finally block follows
FailedSkipsCleanup(step, e) ==
    LET handled == ExceptException(e, request_trace_id)
    IN  /\ steps' = Append(steps, [step |-> step, outcome |-> "raised"])
        /\ error' = Some(e)
        /\ response' = handled.response
        /\ escaped' = handled.escaped
        /\ pc' = "returned"

\* a step raises e: the except clause answers, then the finally block runs
Failed(step, e) ==
    LET handled == ExceptException(e, request_trace_id)
    IN  /\ steps' = Append(steps, [step |-> step, outcome |-> "raised"])
        /\ error' = Some(e)
        /\ response' = handled.response
        /\ escaped' = handled.escaped
        /\ pc' = "finally"

\* run(table_name) starts: its locals are None
StartRun(trace_id, name, by) ==
    /\ pc = "idle"
    /\ request_trace_id' = trace_id
    /\ table_name' = name
    /\ caller' = by
    /\ data' = None /\ county_df' = None /\ national_df' = None
    /\ merged_df' = None /\ final_df' = None
    /\ pc' = "EXTRACT"
    /\ UNCHANGED <<db, sink, jadelle_ratio, audit_log, error, response, escaped,
                   http_response, save_calls, steps, cleanups>>

\* POST /data_cleaning/pipeline: the pipeline is built with the request's
\* trace id and run() is called without a table name
DataCleaningPipeline ==
    \E t \in TraceIds : StartRun(t, DEFAULT_TABLE_NAME, "route")

\* run(table_name) called by other code, with any destination
Run ==
    \E t \in TraceIds, n \in TableNames : StartRun(t, n, "direct")

ExtractData ==
    /\ pc = "EXTRACT"
    /\ \/ /\ data' = Some([raw_fp    |-> db.raw_fp_data,
                           org_units |-> db.organisation_units,
                           elements  |-> db.data_elements])
          /\ Completed("EXTRACT")
       \/ /\ Failed("EXTRACT", StepErrors.EXTRACT)
          /\ UNCHANGED data
    /\ UNCHANGED <<request_trace_id, table_name, db, sink, county_df, national_df,
                   merged_df, final_df, jadelle_ratio, audit_log, http_response,
                   save_calls, cleanups, caller>>

Audit ==
    /\ pc = "AUDIT"
    /\ \/ /\ audit_log' = Some(AuditDuplicates(data[1].raw_fp))
          /\ Completed("AUDIT")
       \/ /\ Failed("AUDIT", StepErrors.AUDIT)
          /\ UNCHANGED audit_log
    /\ UNCHANGED <<request_trace_id, table_name, db, sink, data, county_df,
                   national_df, merged_df, final_df, jadelle_ratio, http_response,
                   save_calls, cleanups, caller>>

Transform ==
    /\ pc = "TRANSFORM"
    /\ \/ /\ county_df' = Some(ApplyTransformations(data[1].raw_fp,
                                                    data[1].org_units,
                                                    data[1].elements))
          /\ Completed("TRANSFORM")
       \/ /\ Failed("TRANSFORM", StepErrors.TRANSFORM)
          /\ UNCHANGED county_df
    /\ UNCHANGED <<request_trace_id, table_name, db, sink, data, national_df,
                   merged_df, final_df, jadelle_ratio, audit_log, http_response,
                   save_calls, cleanups, caller>>

AggregateNational ==
    /\ pc = "AGGREGATE_NATIONAL"
    /\ \/ /\ \E rows \in RowOrders(GenerateNationalAggregates(county_df[1])) :
                national_df' = Some(rows)
          /\ Completed("AGGREGATE_NATIONAL")
       \/ /\ Failed("AGGREGATE_NATIONAL", StepErrors.AGGREGATE_NATIONAL)
          /\ UNCHANGED national_df
    /\ UNCHANGED <<request_trace_id, table_name, db, sink, data, county_df,
                   merged_df, final_df, jadelle_ratio, audit_log, http_response,
                   save_calls, cleanups, caller>>

Merge ==
    /\ pc = "MERGE"
    /\ \/ /\ merged_df' = Some(Concat(<<county_df[1], national_df[1]>>))
          /\ Completed("MERGE")
       \/ /\ Failed("MERGE", StepErrors.MERGE)
          /\ UNCHANGED merged_df
    /\ UNCHANGED <<request_trace_id, table_name, db, sink, data, county_df,
                   national_df, final_df, jadelle_ratio, audit_log, http_response,
                   save_calls, cleanups, caller>>

Redistribute ==
    /\ pc = "REDISTRIBUTE"
    /\ \/ LET call == ProcessTwoRodSplit(merged_df[1], jadelle_ratio)
          IN  IF call.ok
              THEN final_df' = Some(call.df) /\ Completed("REDISTRIBUTE")
              ELSE UNCHANGED final_df /\ Failed("REDISTRIBUTE", call.error)
       \/ /\ Failed("REDISTRIBUTE", StepErrors.REDISTRIBUTE)
          /\ UNCHANGED final_df
    /\ UNCHANGED <<request_trace_id, table_name, db, sink, data, county_df,
                   national_df, merged_df, jadelle_ratio, audit_log, http_response,
                   save_calls, cleanups, caller>>

\* the delegate is called; when it returns, run() builds the success response
Persist ==
    /\ pc = "PERSIST"
    /\ save_calls' = Append(save_calls,
                            [df |-> final_df[1], table_name |-> table_name,
                             if_table_exists |-> IF_TABLE_EXISTS])
    /\ \/ /\ sink' = SaveDfToDb(sink, final_df[1], table_name, IF_TABLE_EXISTS)
          /\ steps' = Append(steps, [step |-> "PERSIST", outcome |-> "ok"])
          /\ response' = Some(SuccessResponse(final_df[1], request_trace_id))
          /\ pc' = AfterStep("PERSIST")
          /\ UNCHANGED <<error, escaped>>
       \/ /\ Failed("PERSIST", StepErrors.PERSIST)
          /\ UNCHANGED sink
    /\ UNCHANGED <<request_trace_id, table_name, db, data, county_df, national_df,
                   merged_df, final_df, jadelle_ratio, audit_log, http_response,
                   cleanups, caller>>

\* the finally block: the locals are deleted, the value to return is kept
Cleanup ==
    /\ pc = "finally"
    /\ data' = None /\ county_df' = None /\ national_df' = None
    /\ merged_df' = None /\ final_df' = None
    /\ cleanups' = cleanups + 1
    /\ pc' = "returned"
    /\ UNCHANGED <<request_trace_id, table_name, db, sink, jadelle_ratio,
                   audit_log, error, response, escaped, http_response, save_calls,
                   steps, caller>>

\* the route returns what run() returned
Respond ==
    /\ pc = "returned"
    /\ caller = "route"
    /\ http_response' = IF escaped = None THEN response ELSE None
    /\ pc' = "responded"
    /\ UNCHANGED <<request_trace_id, table_name, db, sink, data, county_df,
                   national_df, merged_df, final_df, jadelle_ratio, audit_log,
                   error, response, escaped, save_calls, steps, cleanups, caller>>

Next ==
    \/ DataCleaningPipeline
    \/ Run
    \/ ExtractData
    \/ Audit
    \/ Transform
    \/ AggregateNational
    \/ Merge
    \/ Redistribute
    \/ Persist
    \/ Cleanup
    \/ Respond

Spec == Init /\ [][Next]_vars

\* run() or the route has a statement to execute
Executing ==
    \/ \E i \in 1..Len(StepOrder) : pc = StepOrder[i]
    \/ pc = "finally"
    \/ pc = "returned" /\ caller = "route"

\* the statement at pc is executed: control moves on.  Under Next this is a
\* step of ExtractData, Audit, Transform, AggregateNational, Merge,
\* Redistribute, Persist, Cleanup or Respond, and one of them is enabled
\* exactly when Executing holds.
Proceeds ==
    /\ Executing
    /\ pc' \in {StepOrder[i] : i \in 1..Len(StepOrder)}
               \cup {"finally", "returned", "responded"}
    /\ pc' # pc

\* run() is straight-line code executed by one thread: the statement it is at
\* is executed, and every call it makes returns or raises
LiveSpec == Spec /\ WF_pc(Proceeds)

(***************************************************************************)
(* The Transformer and the National Aggregator called on their own, on     *)
(* any raw observations and mappings within the bounds                     *)
(***************************************************************************)
ObsRows ==
    {[analytic_id |-> a, org_unit |-> f, period |-> pv[1], value |-> pv[2]] :
        a \in {"TUHzoPGLM3t", "BQmcVE8fex4", "zzUnlistedId"},
        f \in {"F1", "F2"},
        pv \in {<<"2024-01", 1>>, <<"2024-02", 3>>}}

ObsOrgTables ==
    { <<OrgRow("F1", "Nairobi"), OrgRow("F2", "Mombasa")>>,
      <<OrgRow("F1", "Nairobi"), OrgRow("F2", "Nairobi")>>,
      <<OrgRow("F1", "Nairobi")>>,
      <<OrgRow("F1", "Nairobi"), OrgRow("F1", "Mombasa"), OrgRow("F2", "Kenya")>> }

ObsElementTables ==
    { <<ElementRow("TUHzoPGLM3t", N711), ElementRow("BQmcVE8fex4", N711),
        ElementRow("zzUnlistedId", N747)>>,
      <<ElementRow("TUHzoPGLM3t", N747), ElementRow("BQmcVE8fex4", NBoth),
        ElementRow("zzUnlistedId", NNeither)>>,
      <<ElementRow("TUHzoPGLM3t", NNeither), ElementRow("BQmcVE8fex4", N747)>>,
      <<ElementRow("TUHzoPGLM3t", N711), ElementRow("TUHzoPGLM3t", N747),
        ElementRow("BQmcVE8fex4", N711), ElementRow("zzUnlistedId", N711)>> }

TransformInputs ==
    [raw_fp : SeqsUpTo(ObsRows, MaxObs), org_units : ObsOrgTables,
     elements : ObsElementTables]

Idle ==
    /\ request_trace_id = "" /\ table_name = ""
    /\ db = [raw_fp_data |-> <<>>, organisation_units |-> <<>>,
             data_elements |-> <<>>]
    /\ sink = [t \in TableNames |-> <<>>]
    /\ audit_log = None /\ error = None /\ response = None /\ escaped = None
    /\ http_response = None /\ save_calls = <<>> /\ steps = <<>> /\ cleanups = 0
    /\ caller = ""

TransformInit ==
    /\ pc = "call_apply_transformations"
    /\ data \in {Some(d) : d \in TransformInputs}
    /\ county_df = None /\ national_df = None
    /\ merged_df = None /\ final_df = None
    /\ jadelle_ratio = DEFAULT_JADELLE_RATIO
    /\ Idle

CallApplyTransformations ==
    /\ pc = "call_apply_transformations"
    /\ county_df' = Some(ApplyTransformations(data[1].raw_fp, data[1].org_units,
                                              data[1].elements))
    /\ pc' = "call_generate_national_aggregates"
    /\ UNCHANGED <<request_trace_id, table_name, db, sink, data, national_df,
                   merged_df, final_df, jadelle_ratio, audit_log, error, response,
                   escaped, http_response, save_calls, steps, cleanups, caller>>

CallGenerateNationalAggregates ==
    /\ pc = "call_generate_national_aggregates"
    /\ \E rows \in RowOrders(GenerateNationalAggregates(county_df[1])) :
          national_df' = Some(rows)
    /\ pc' = "called"
    /\ UNCHANGED <<request_trace_id, table_name, db, sink, data, county_df,
                   merged_df, final_df, jadelle_ratio, audit_log, error, response,
                   escaped, http_response, save_calls, steps, cleanups, caller>>

TransformNext == CallApplyTransformations \/ CallGenerateNationalAggregates

TransformSpec == TransformInit /\ [][TransformNext]_vars

(***************************************************************************)
(* The Transformer called on records of every product of the catalog and   *)
(* of a product outside it, one facility, one period                       *)
(***************************************************************************)
\* rows of raw_fp_data handed to the Transformer in these calls
MaxAdjusted == 2

\* one analytic id of every product of ANALYTIC_ID_MAP, and one outside it
AdjustedIds ==
    << "dl4JcBnxu0X", "tfPZ6sGgh4q", "cV4qoKSYiBs", "APbXNRovb5w", "CJdFYcZ1zOq",
       "MsS41X1GEFr", "zXbxl6y97mi", "Fxb4iVJdw2g", "paDQStynGGD", "NMCIxSeGpS3",
       "PgQIx7Hq1kp", "fYCo4peO0yE", "BQmcVE8fex4", "TUHzoPGLM3t",
       "zzUnlistedId" >>

AdjustedNames == <<N711, N747, NBoth, NNeither>>

AdjustedRows ==
    {[analytic_id |-> AdjustedIds[i], org_unit |-> "F1", period |-> "2024-01",
      value |-> 3] : i \in 1..Len(AdjustedIds)}

\* data_elements: every id under one name, or the names taken in turn
AdjustedElementTables ==
    {[i \in 1..Len(AdjustedIds) |-> ElementRow(AdjustedIds[i], AdjustedNames[n])] :
        n \in 1..Len(AdjustedNames)}
    \cup {[i \in 1..Len(AdjustedIds) |->
              ElementRow(AdjustedIds[i], AdjustedNames[((i + 3) % 4) + 1])]}

AdjustedInputs ==
    [raw_fp : SeqsUpTo(AdjustedRows, MaxAdjusted),
     org_units : {<<OrgRow("F1", "Nairobi")>>},
     elements : AdjustedElementTables]

AdjustInit ==
    /\ pc = "call_apply_transformations"
    /\ data \in {Some(d) : d \in AdjustedInputs}
    /\ county_df = None /\ national_df = None
    /\ merged_df = None /\ final_df = None
    /\ jadelle_ratio = DEFAULT_JADELLE_RATIO
    /\ Idle

AdjustSpec == AdjustInit /\ [][TransformNext]_vars

(***************************************************************************)
(* The Redistribution Rule called on its own, on any aggregate and ratio   *)
(* within the bounds                                                       *)
(***************************************************************************)
\* 0.0, 0.3, 0.8, 1.0
Ratios ==
    { ToFloat64(0),
      FromHex(<<1, 3, 3, 3, 3, 3, 3, 3, 3, 3, 3, 3, 3, 3>>, -54),
      DEFAULT_JADELLE_RATIO,
      F64One }

SplitRowsIn ==
    [analytic : {"2 Rod", "Jadelle"},
     method   : {"Service", "Consumption", "Unknown Method"},
     org_unit : {"Nairobi", NATIONAL_LABEL},
     period   : {"2024-01"},
     value    : {ToFloat64(1), ToFloat64(3)}]

SplitInit ==
    /\ pc = "call_process_two_rod_split"
    /\ merged_df \in {Some(df) : df \in SeqsUpTo(SplitRowsIn, MaxSplitRows)}
    /\ jadelle_ratio \in Ratios
    /\ data = None /\ county_df = None /\ national_df = None /\ final_df = None
    /\ Idle

CallProcessTwoRodSplit ==
    /\ pc = "call_process_two_rod_split"
    /\ LET call == ProcessTwoRodSplit(merged_df[1], jadelle_ratio)
       IN  IF call.ok THEN final_df' = Some(call.df) /\ UNCHANGED error
           ELSE error' = Some(call.error) /\ UNCHANGED final_df
    /\ pc' = "called"
    /\ UNCHANGED <<request_trace_id, table_name, db, sink, data, county_df,
                   national_df, merged_df, jadelle_ratio, audit_log, response,
                   escaped, http_response, save_calls, steps, cleanups, caller>>

SplitNext == CallProcessTwoRodSplit

SplitSpec == SplitInit /\ [][SplitNext]_vars

(***************************************************************************)
(* Properties of the orchestrator (checked under Spec)                     *)
(***************************************************************************)
Ended == pc \in {"finally", "returned", "responded"}

HasRaised == \E i \in 1..Len(steps) : steps[i].outcome = "raised"

\* C1: the steps of a run execute in the order EXTRACT, AUDIT, TRANSFORM,
\* AGGREGATE_NATIONAL, MERGE, REDISTRIBUTE, PERSIST; a step that raises is the
\* last step of the run (the run goes to its end, no later step is executed);
\* the persistence delegate is called only after the six steps before it
\* completed without raising.
C1_StepsInOrderFailFast ==
    /\ Len(steps) <= Len(StepOrder)
    /\ \A i \in 1..Len(steps) : steps[i].step = StepOrder[i]
    /\ \A i \in 1..(Len(steps) - 1) : steps[i].outcome = "ok"
    /\ HasRaised => Ended
    /\ save_calls # <<>> =>
          /\ Len(steps) = Len(StepOrder)
          /\ \A i \in 1..(Len(StepOrder) - 1) : steps[i].outcome = "ok"

\* a run in which MERGE raised has ended after five steps, nothing persisted
C1_Witness ==
    /\ pc = "returned"
    /\ Len(steps) = 5
    /\ steps[5] = [step |-> "MERGE", outcome |-> "raised"]
    /\ save_calls = <<>>

\* C2: whichever step raises, run() does not let the exception out: it has
\* returned a response with success = FALSE, a message that carries the
\* exception's message, no data, and the caller's trace id; when no step
\* raised the response has success = TRUE and the same trace id; the route
\* answers with that response.
C2_StructuredResult ==
    Ended =>
        /\ escaped = None
        /\ response # None
        /\ response[1].trace_id = request_trace_id
        /\ request_trace_id \in TraceIds
        /\ HasRaised <=> error # None
        /\ error # None =>
              /\ response[1].success = FALSE
              /\ \E i \in 1..Len(response[1].message) :
                    response[1].message[i] = error[1]
              /\ response[1].data = None
        /\ error = None => response[1].success = TRUE
        /\ pc = "responded" => http_response = response

\* the persistence delegate raised and the route answered with the failure
C2_Witness ==
    /\ pc = "responded"
    /\ error = Some(StepErrors.PERSIST)
    /\ http_response # None
    /\ http_response[1].success = FALSE
    /\ http_response[1].trace_id = "trace-2"

\* C3: the persistence delegate is called at most once in a run, as the last
\* step, with mode "replace" and the run's destination table (the default
\* table when the route started the run); after a successful run the
\* destination holds exactly the run's final dataset.
C3_SingleFullReplace ==
    /\ Len(save_calls) <= 1
    /\ \A i \in 1..Len(save_calls) :
          /\ save_calls[i].if_table_exists = "replace"
          /\ save_calls[i].table_name = table_name
          /\ steps # <<>> /\ steps[Len(steps)].step = "PERSIST"
    /\ caller = "route" => table_name = "cleaned_fp_summary_data"
    /\ pc = "finally" /\ error = None =>
          /\ Len(save_calls) = 1
          /\ save_calls[1].df = final_df[1]
    /\ Ended /\ error = None =>
          /\ Len(save_calls) = 1
          /\ sink[table_name] = save_calls[1].df

\* a successful run replaced a destination that held an earlier run's rows
C3_Witness ==
    /\ pc = "responded"
    /\ error = None
    /\ Len(save_calls) = 1
    /\ save_calls[1].df # <<>>
    /\ sink[table_name] = save_calls[1].df
    /\ \E t \in TableNames : sink[t] = <<StaleRow>>

(***************************************************************************)
(* Properties of the Redistribution Rule (checked under SplitSpec)         *)
(***************************************************************************)
IsTwoRodService(r) == r.analytic = "2 Rod" /\ r.method = "Service"

IsOtherRow(r) == ~IsTwoRodService(r)

\* the call returned a DataFrame (it did not raise)
SplitReturned == pc = "called" /\ final_df # None

DerivedRow(name, r, value) ==
    [analytic |-> name, method |-> r.method, org_unit |-> r.org_unit,
     period |-> r.period, value |-> value]

\* the output holds the Jadelle row and the Levoplant row of input row r,
\* with the Float64 products V * ratio and V * (1 - ratio) as values
HasBothShares(out, r, ratio) ==
    /\ \E j \in 1..Len(out) :
          out[j] = DerivedRow("Jadelle", r, F64Mul(r.value, ratio))
    /\ \E l \in 1..Len(out) :
          out[l] = DerivedRow("Levoplant", r,
                              F64Mul(r.value, F64Sub(F64One, ratio)))

SharesSum(r, ratio) ==
    F64Add(F64Mul(r.value, ratio), F64Mul(r.value, F64Sub(F64One, ratio)))

\* |x - v| <= v * 2^-51
WithinTolerance(x, v) ==
    LET d == F64Dist(x, v)
    IN  F64Leq([m |-> d.m, e |-> d.e + 51], v)

\* C4 as claimed: for every '2 Rod' Service row of value V the output holds
\* a Jadelle row of value V*r and a Levoplant row of value V*(1-r) for the
\* row's geography and period, and the two values add up to exactly V.
C4_MassExactlyConserved ==
    SplitReturned =>
        \A i \in 1..Len(merged_df[1]) :
            IsTwoRodService(merged_df[1][i]) =>
                /\ HasBothShares(final_df[1], merged_df[1][i], jadelle_ratio)
                /\ SharesSum(merged_df[1][i], jadelle_ratio) = merged_df[1][i].value

\* C4 as amended: the two derived rows are there, with the Float64 products
\* as values, and their Float64 sum is V up to rounding: it differs from V
\* by at most V * 2^-51.
C4_MassConservedWithinTolerance ==
    SplitReturned =>
        \A i \in 1..Len(merged_df[1]) :
            IsTwoRodService(merged_df[1][i]) =>
                /\ HasBothShares(final_df[1], merged_df[1][i], jadelle_ratio)
                /\ WithinTolerance(SharesSum(merged_df[1][i], jadelle_ratio),
                                   merged_df[1][i].value)

\* a national '2 Rod' Service row was split and its two shares do not add up
\* to its value
C4_Witness ==
    /\ SplitReturned
    /\ \E i \in 1..Len(merged_df[1]) :
          /\ IsTwoRodService(merged_df[1][i])
          /\ merged_df[1][i].org_unit = "Kenya"
          /\ HasBothShares(final_df[1], merged_df[1][i], jadelle_ratio)
          /\ SharesSum(merged_df[1][i], jadelle_ratio) # merged_df[1][i].value

\* C5: the rows that are not ('2 Rod', Service) pass through unchanged, once
\* each: they are the first rows of the output, in their order, and every
\* other output row is a derived Service row; when no input row is
\* ('2 Rod', Service) the output is the input.
C5_OtherRowsUnchanged ==
    SplitReturned =>
        LET in   == merged_df[1]
            out  == final_df[1]
            kept == SelectSeq(in, IsOtherRow)
        IN  /\ Len(out) >= Len(kept)
            /\ SubSeq(out, 1, Len(kept)) = kept
            /\ \A j \in (Len(kept) + 1)..Len(out) :
                  /\ out[j].analytic \in {"Jadelle", "Levoplant"}
                  /\ out[j].method = "Service"
                  /\ \E i \in 1..Len(in) :
                        /\ IsTwoRodService(in[i])
                        /\ in[i].org_unit = out[j].org_unit
                        /\ in[i].period = out[j].period
            /\ kept = in => out = in

\* a '2 Rod' Consumption row went through a call that split a '2 Rod'
\* Service row
C5_Witness ==
    /\ SplitReturned
    /\ \E i, k \in 1..Len(merged_df[1]) :
          /\ IsTwoRodService(merged_df[1][i])
          /\ merged_df[1][k].analytic = "2 Rod"
          /\ merged_df[1][k].method = "Consumption"
          /\ \E j \in 1..Len(final_df[1]) : final_df[1][j] = merged_df[1][k]

\* C6: every ('2 Rod', Service) row is replaced by exactly one 'Jadelle' row
\* and exactly one 'Levoplant' row with its geography, method and period; no
\* ('2 Rod', Service) row remains; the output has (number of other rows)
\* + 2 * (number of ('2 Rod', Service) rows) rows.
C6_TwoDerivedRowsPerMatch ==
    SplitReturned =>
        LET in      == merged_df[1]
            out     == final_df[1]
            kept    == SelectSeq(in, IsOtherRow)
            matched == SelectSeq(in, IsTwoRodService)
            derived == SubSeq(out, Len(kept) + 1, Len(out))
        IN  /\ Len(out) = Len(kept) + 2 * Len(matched)
            /\ \A j \in 1..Len(out) : ~IsTwoRodService(out[j])
            /\ \A i \in 1..Len(matched) :
                  \A name \in {"Jadelle", "Levoplant"} :
                      Cardinality({j \in 1..Len(derived) :
                          /\ derived[j].analytic = name
                          /\ derived[j].method = matched[i].method
                          /\ derived[j].org_unit = matched[i].org_unit
                          /\ derived[j].period = matched[i].period}) = 1

\* two ('2 Rod', Service) rows of different geographies became four rows
C6_Witness ==
    /\ SplitReturned
    /\ Len(merged_df[1]) = 2
    /\ IsTwoRodService(merged_df[1][1])
    /\ IsTwoRodService(merged_df[1][2])
    /\ Len(final_df[1]) = 4

(***************************************************************************)
(* Properties of the Transformer and of the National Aggregator (checked   *)
(* under TransformSpec)                                                    *)
(***************************************************************************)
KeyOf(r) == <<r.analytic, r.method, r.org_unit, r.period>>

UniqueKeys(df) ==
    \A i, j \in 1..Len(df) : KeyOf(df[i]) = KeyOf(df[j]) => i = j

\* C7: no two rows of the Transformer's output share a (product, method,
\* geography, period) key, and no two rows of the National Aggregator's
\* output do, whatever the raw observations and the mappings are.
C7_UniqueKeys ==
    /\ county_df # None => UniqueKeys(county_df[1])
    /\ national_df # None => UniqueKeys(national_df[1])

\* two identical raw rows, matched by both mappings, ended in one row
C7_Witness ==
    /\ pc = "called"
    /\ Len(data[1].raw_fp) = 2
    /\ data[1].raw_fp[1] = data[1].raw_fp[2]
    /\ Len(county_df[1]) = 1
    /\ Len(national_df[1]) = 1

NatKeyOf(r) == <<r.analytic, r.method, r.period>>

\* C8: for every (product, method, period) of the sub-national aggregate the
\* National Aggregator outputs exactly one row, with geography 'Kenya' and
\* the sum of the sub-national values of that key as value; it outputs no
\* row for any other key.
C8_NationalTotals ==
    national_df # None =>
        LET county   == county_df[1]
            national == national_df[1]
        IN  /\ \A i \in 1..Len(county) :
                  LET rows == {j \in 1..Len(national) :
                                  NatKeyOf(national[j]) = NatKeyOf(county[i])}
                  IN  /\ Cardinality(rows) = 1
                      /\ \A j \in rows :
                            /\ national[j].org_unit = "Kenya"
                            /\ national[j].value =
                                  SumValues(SelectSeq(county,
                                      LAMBDA r : NatKeyOf(r) = NatKeyOf(county[i])))
            /\ \A j \in 1..Len(national) :
                  \E i \in 1..Len(county) : NatKeyOf(county[i]) = NatKeyOf(national[j])

\* two regions' rows of one product, method and period were added up
C8_Witness ==
    /\ pc = "called"
    /\ Len(county_df[1]) = 2
    /\ county_df[1][1].org_unit # county_df[1][2].org_unit
    /\ Len(national_df[1]) = 1
    /\ national_df[1][1].value = F64Add(county_df[1][1].value, county_df[1][2].value)

HasOrgUnit(o, org_units) ==
    \E i \in 1..Len(org_units) : org_units[i].org_unit = o.org_unit

HasElement(o, elements) ==
    \E i \in 1..Len(elements) : elements[i].analytic_id = o.analytic_id

\* the observations that both mappings have a row for
MatchedObs ==
    SelectSeq(data[1].raw_fp,
              LAMBDA o : HasOrgUnit(o, data[1].org_units)
                         /\ HasElement(o, data[1].elements))

\* C9: an observation whose org_unit or analytic_id has no row in its mapping
\* contributes nothing: the Transformer's output is the output it gives for
\* the matched observations alone; with no matched observation the call
\* returns the empty aggregate and does not raise.
C9_UnmatchedDropped ==
    pc # "call_apply_transformations" =>
        /\ county_df # None
        /\ error = None
        /\ county_df[1] = ApplyTransformations(MatchedObs, data[1].org_units,
                                               data[1].elements)
        /\ MatchedObs = <<>> => county_df[1] = <<>>

\* of two observations one had no organisation mapping; one row came out
C9_Witness ==
    /\ pc = "called"
    /\ Len(data[1].raw_fp) = 2
    /\ Len(MatchedObs) = 1
    /\ \E i \in 1..2 : ~HasOrgUnit(data[1].raw_fp[i], data[1].org_units)
    /\ Len(county_df[1]) = 1

ExpectedMethod(analytic_name) ==
    IF StrContains(analytic_name, <<"7", "1", "1">>) THEN "Service"
    ELSE IF StrContains(analytic_name, <<"7", "4", "7">>) THEN "Consumption"
    ELSE "Unknown Method"

\* the keys the matched (observation, organisation row, element row) triples
\* give when the method is read from analytic_name
ExpectedKeys ==
    {<<ShortName(data[1].raw_fp[i].analytic_id),
       ExpectedMethod(data[1].elements[k].analytic_name),
       data[1].org_units[j].county_name,
       data[1].raw_fp[i].period>> :
        <<i, j, k>> \in
            {t \in (1..Len(data[1].raw_fp)) \X (1..Len(data[1].org_units))
                   \X (1..Len(data[1].elements)) :
                /\ data[1].org_units[t[2]].org_unit = data[1].raw_fp[t[1]].org_unit
                /\ data[1].elements[t[3]].analytic_id
                      = data[1].raw_fp[t[1]].analytic_id}}

\* C10: the method of a record is Service when its analytic_name contains
\* '711' (also when it contains '747' too), else Consumption when it contains
\* '747', else 'Unknown Method': the output's keys are the keys so computed,
\* and every row has one of the three methods.
C10_MethodFromAnalyticName ==
    county_df # None =>
        /\ {KeyOf(county_df[1][i]) : i \in 1..Len(county_df[1])} = ExpectedKeys
        /\ \A i \in 1..Len(county_df[1]) :
              county_df[1][i].method \in {"Service", "Consumption", "Unknown Method"}

\* a record whose analytic_name contains '747' and '711' came out as Service
C10_Witness ==
    /\ pc = "called"
    /\ \E k \in 1..Len(data[1].elements) :
          /\ data[1].elements[k].analytic_name = NBoth
          /\ \E i \in 1..Len(data[1].raw_fp) :
                data[1].raw_fp[i].analytic_id = data[1].elements[k].analytic_id
          /\ \E i \in 1..Len(county_df[1]) :
                /\ county_df[1][i].method = "Service"
                /\ county_df[1][i].analytic
                      = ShortName(data[1].elements[k].analytic_id)

(***************************************************************************)
(* The value multiplier (checked under AdjustSpec)                         *)
(***************************************************************************)
\* the name data_elements gives an analytic id (one row per id here)
NameOf(analytic_id, elements) ==
    elements[CHOOSE k \in 1..Len(elements) :
                elements[k].analytic_id = analytic_id].analytic_name

\* four times the value a record of an integer value v is to count for
ExpectedQuarters(product, method, v) ==
    IF method # "Service" THEN 4 * v
    ELSE CASE product = "COCs"           -> 5 * v
           [] product = "POPs"           -> 2 * v
           [] product = "Female Condoms" -> 40 * v
           [] product = "Male Condoms"   -> 40 * v
           [] OTHER                      -> 4 * v

\* the records of a key, as quarters, added up
RECURSIVE QuartersOf(_, _, _)
QuartersOf(raw_fp, elements, key) ==
    IF raw_fp = <<>> THEN 0
    ELSE LET o       == raw_fp[1]
             product == ShortName(o.analytic_id)
             method  == ExpectedMethod(NameOf(o.analytic_id, elements))
         IN  (IF <<product, method>> = key
              THEN ExpectedQuarters(product, method, o.value) ELSE 0)
             + QuartersOf(Tail(raw_fp), elements, key)

\* C11: a record's value is multiplied only when its method is Service, by
\* 1.25 for COCs, 0.5 for POPs, 10 for Female Condoms and Male Condoms and 1.0
\* for every other product, 'Unknown Product' included; a record of method
\* Consumption or 'Unknown Method' keeps its value whatever its product: every
\* output row holds the sum of the values so adjusted of its records.
C11_ServiceMultiplier ==
    county_df # None =>
        LET out == county_df[1]
        IN  /\ \A i \in 1..Len(out) :
                  out[i].value =
                      RoundF64(BitsOf(QuartersOf(data[1].raw_fp, data[1].elements,
                                                 <<out[i].analytic, out[i].method>>)),
                               -2)
            /\ \A i \in 1..Len(data[1].raw_fp) :
                  \E j \in 1..Len(out) :
                      /\ out[j].analytic = ShortName(data[1].raw_fp[i].analytic_id)
                      /\ out[j].method =
                            ExpectedMethod(NameOf(data[1].raw_fp[i].analytic_id,
                                                  data[1].elements))

\* a Service record of COCs of value 3 came out as 3.75 next to a record of
\* Female Condoms of 'Unknown Method' that kept its value 3
C11_Witness ==
    /\ pc = "called"
    /\ Len(data[1].raw_fp) = 2
    /\ \E i, j \in 1..Len(county_df[1]) :
          /\ county_df[1][i].analytic = "COCs"
          /\ county_df[1][i].method = "Service"
          /\ county_df[1][i].value = RoundF64(BitsOf(15), -2)
          /\ county_df[1][j].analytic = "Female Condoms"
          /\ county_df[1][j].method = "Unknown Method"
          /\ county_df[1][j].value = ToFloat64(3)

(***************************************************************************)
(* Colliding combined-value rows (checked under Spec)                      *)
(***************************************************************************)
\* two rows of df are ('2 Rod', Service) rows of one geography and period
Collides(df) ==
    \E i, j \in 1..Len(df) :
        /\ i # j
        /\ IsTwoRodService(df[i]) /\ IsTwoRodService(df[j])
        /\ df[i].org_unit = df[j].org_unit
        /\ df[i].period = df[j].period

\* the dataset steps 3 to 5 hand to the redistribution for the tables of the
\* store (the order of the national rows plays no part in a collision)
MergedOfStore ==
    LET county == ApplyTransformations(db.raw_fp_data, db.organisation_units,
                                       db.data_elements)
    IN  county \o GenerateNationalAggregates(county)

RedistributeCalled == Len(steps) >= 6

\* C12: when the dataset handed to the redistribution holds two ('2 Rod',
\* Service) rows of one geography and period, the redistribution raises: it
\* returns no dataset, no derived row exists, REDISTRIBUTE is the last step of
\* the run, run() answers with a failure response and the persistence
\* delegate is never called (the destination tables are as they were).
C12_CollisionFailsLoudly ==
    /\ (RedistributeCalled /\ merged_df # None) => merged_df[1] \in RowOrders(MergedOfStore)
    /\ (RedistributeCalled /\ Collides(MergedOfStore)) =>
          /\ Len(steps) = 6
          /\ steps[6] = [step |-> "REDISTRIBUTE", outcome |-> "raised"]
          /\ final_df = None
          /\ save_calls = <<>>
          /\ \A t \in TableNames : sink[t] \in StaleTables
          /\ Ended
          /\ escaped = None
          /\ response # None /\ response[1].success = FALSE
          /\ pc = "responded" =>
                http_response # None /\ http_response[1].success = FALSE

\* a region named 'Kenya' reported '2 Rod' Service data: its row collided with
\* the national row, the pivot raised and the route answered with the failure
C12_Witness ==
    /\ pc = "responded"
    /\ Collides(MergedOfStore)
    /\ error = Some(PIVOT_ERROR)
    /\ steps[6] = [step |-> "REDISTRIBUTE", outcome |-> "raised"]
    /\ http_response[1].success = FALSE
    /\ save_calls = <<>>

(***************************************************************************)
(* Cleanup (checked under LiveSpec)                                        *)
(***************************************************************************)
RunStarted == pc # "idle"

CleanedUp == cleanups = 1

HoldsNoDataset ==
    /\ data = None /\ county_df = None /\ national_df = None
    /\ merged_df = None /\ final_df = None

\* C13: every run that started reaches the finally block, on the success
\* path and after a raise of any step; the block is executed exactly once,
\* after it none of data, county_df, national_df, merged_df and final_df
\* refers to a dataset, and executing it leaves the value run() returns (and
\* the exception state) as they were.
C13_CleanupOnEveryPath ==
    /\ [](/\ cleanups <= 1
          /\ CleanedUp <=> pc \in {"returned", "responded"}
          /\ CleanedUp => HoldsNoDataset)
    /\ [][cleanups' # cleanups =>
              /\ cleanups' = cleanups + 1
              /\ response # None
              /\ response' = response
              /\ escaped' = escaped
              /\ sink' = sink]_vars
    /\ RunStarted ~> CleanedUp

\* extraction raised, no dataset was ever bound, and the finally block ran
C13_Witness ==
    /\ pc = "returned"
    /\ steps = <<[step |-> "EXTRACT", outcome |-> "raised"]>>
    /\ CleanedUp
    /\ HoldsNoDataset
    /\ response # None /\ response[1].success = FALSE

(***************************************************************************)
(* The keys of the dataset that is persisted (checked under Spec)          *)
(***************************************************************************)
\* C14: no two rows of the dataset handed to the persistence delegate share
\* a (product, method, geography, period) key, whatever the extracted tables
\* are: also when a Service record resolves directly to 'Jadelle' or
\* 'Levoplant' where a '2 Rod' Service row is split, and when a region is
\* named 'Kenya'.
C14_PersistedKeysUnique ==
    \A c \in 1..Len(save_calls) : UniqueKeys(save_calls[c].df)

(***************************************************************************)
(* Every matched observation counted once (checked under TransformSpec)    *)
(***************************************************************************)
\* four times the values a matched observation can count for: its value,
\* adjusted for the method of a data_elements row of its analytic code
ObservationQuarters(o, elements) ==
    {ExpectedQuarters(ShortName(o.analytic_id),
                      ExpectedMethod(elements[k].analytic_name), o.value) :
        k \in {n \in 1..Len(elements) : elements[n].analytic_id = o.analytic_id}}

\* four times the totals of observations counted once each
RECURSIVE TotalQuarters(_, _)
TotalQuarters(obs, elements) ==
    IF obs = <<>> THEN {0}
    ELSE {q + t : q \in ObservationQuarters(obs[1], elements),
                  t \in TotalQuarters(Tail(obs), elements)}

\* C15: every raw observation matched by both mappings counts once, with its
\* adjusted value, in one output row: the values of the Transformer's output
\* add up to the sum of the adjusted values of the matched observations,
\* whatever the mappings are, also when they list a facility or an analytic
\* code in more than one row.
C15_MatchedCountedOnce ==
    county_df # None =>
        \E q \in TotalQuarters(MatchedObs, data[1].elements) :
            SumValues(county_df[1]) = RoundF64(BitsOf(q), -2)

====
